---- MODULE Spec2Model ----
(***************************************************************************)
(* Aggregated Schnorr {n,n}-signatures (src/protocols/aggsig/temp.rs).     *)
(*                                                                         *)
(* The curve is the secp256k1-shaped curve y^2 = x^3 + 7 over F_13, whose  *)
(* group has prime order 7 and generator (7,5).  A point k*G is held as    *)
(* its index k (0 is the identity); CurveX/CurveY give the coordinates of  *)
(* k*G, so x_coor and bytes_compressed_to_big_int are the real             *)
(* conversions of that curve and point addition is addition of indices.    *)
(* An Option is a sequence: <<>> is None, <<v>> is Some(v).                *)
(***************************************************************************)
EXTENDS Integers, Sequences, FiniteSets, TLC

\* ------------------------------------------------------------- bounds
\* Long-term private keys are drawn from 1..MaxKey.
MaxKey == 3
\* The seed of the random source is drawn from 0..MaxSeed.
MaxSeed == 1
\* Key lists of the aggregation specification have 1..MaxLen keys.
MaxLen == 3
\* A party runs at most MaxSessions sessions one after the other.
MaxSessions == 2

\* The numbers of parties of an honestly run signing session.
PartyCounts == {2, 3}
\* The numbers of parties of a session whose callers and network are unconstrained.
OpenPartyCounts == {2}
\* The messages a caller may hand to sign_2 (byte strings).
Messages == {<<79, 77, 69, 82>>, <<79, 77, 69, 83>>}

\* ------------------------------------------------------------- program constants
NUM_OF_SHARES == 2

\* ------------------------------------------------------------- Option
None == <<>>
Some(v) == <<v>>
is_some(o) == Len(o) = 1
unwrap(o) == o[1]

\* ------------------------------------------------------------- Curve (curv::GE, curv::FE)
CurveX == <<7, 8, 11, 11, 8, 7>>
CurveY == <<5, 5, 8, 5, 8, 8>>
\* The group order q: the points k*G, k = 1..q-1, and the identity.
GroupOrder == Len(CurveX) + 1
FE == 0..(GroupOrder - 1)
GE == 0..(GroupOrder - 1)
\* ECPoint::generator()
generator == 1
\* ECScalar::zero()
zero == 0
\* ECScalar::from(&BigInt): reduction modulo the group order.
ECScalar_from(n) == n % GroupOrder
\* FE::to_big_int()
to_big_int(fe) == fe
\* FE + FE, FE * FE
fe_add(a, b) == (a + b) % GroupOrder
fe_mul(a, b) == (a * b) % GroupOrder
\* GE::add_point, GE::sub_point, GE::scalar_mul (also GE + GE, GE * FE)
add_point(p, r) == (p + r) % GroupOrder
sub_point(p, r) == (p + GroupOrder - r) % GroupOrder
scalar_mul(p, fe) == (p * fe) % GroupOrder
\* GE::x_coor(): Option<BigInt>; the identity has no x-coordinate.
x_coor(p) == IF p = 0 THEN None ELSE Some(CurveX[p])
\* GE::bytes_compressed_to_big_int(): the bytes 02|03 (parity of y), x.
bytes_compressed_to_big_int(p) ==
    IF p = 0 THEN 0 ELSE (2 + (CurveY[p] % 2)) * 256 + CurveX[p]

\* ------------------------------------------------------------- BigInt conversions
RECURSIVE BigInt_from_bytes(_)
\* BigInt::from(&[u8]): big-endian.
BigInt_from_bytes(bytes) ==
    IF bytes = <<>> THEN 0
    ELSE 256 * BigInt_from_bytes(SubSeq(bytes, 1, Len(bytes) - 1)) + bytes[Len(bytes)]

RECURSIVE to_hex(_)
\* BigInt::to_hex(): the hexadecimal digits, most significant first.
to_hex(n) ==
    IF n < 16 THEN <<n>> ELSE Append(to_hex(n \div 16), n % 16)

\* ------------------------------------------------------------- Digest (HSha256)
\* The digest's range 0..HashMod-1 stands for SHA-256's 256 bits; HashMod is a prime
\* with 3 coprime to HashMod - 1, so cubing permutes the range.
HashMod == 257
\* One byte absorbed into the digest state h.
absorb_byte(h, byte) ==
    LET t == (h * 3 + byte + 1) % HashMod
    IN  (t * t * t) % HashMod
RECURSIVE absorb_int(_, _)
\* The bytes of the integer x, most significant first, absorbed into h.
absorb_int(h, x) ==
    IF x < 256 THEN absorb_byte(h, x)
    ELSE absorb_byte(absorb_int(h, x \div 256), x % 256)
RECURSIVE HashFold(_, _)
\* The items of s absorbed in order, each followed by the count of the items left.
HashFold(h, s) ==
    IF s = <<>> THEN h
    ELSE HashFold(absorb_byte(absorb_int(h, Head(s)), Len(s)), Tail(s))
\* HSha256::create_hash(&[&BigInt]): a digest of the ordered list.
create_hash(s) == HashFold(17, s)

\* ------------------------------------------------------------- Commitment (HashCommitment)
\* HashCommitment::create_commitment_with_user_defined_randomness(m, r)
create_commitment_with_user_defined_randomness(m, blind) == create_hash(<<m, blind>>)
\* The random source: sample(rng) is the value drawn, next_rng(rng) the source after it.
sample(rng) == rng
next_rng(rng) == (rng * 5 + 3) % HashMod
\* HashCommitment::create_commitment(m): (commitment, blind_factor) with a sampled blind.
create_commitment(m, rng) ==
    <<create_commitment_with_user_defined_randomness(m, sample(rng)), sample(rng)>>

\* ------------------------------------------------------------- KeyPair
\* KeyPair::create(), private_key being the scalar ECScalar::new_random() drew.
create(private_key) ==
    [public_key |-> scalar_mul(generator, private_key), private_key |-> private_key]

\* KeyPair::create_from_private_key
create_from_private_key(private_key) ==
    LET fe == ECScalar_from(private_key)
    IN  [public_key |-> scalar_mul(generator, fe), private_key |-> fe]

\* ------------------------------------------------------------- KeyAgg
\* key_aggregation with the second digest taken over the keys in the other order.
key_aggregation_swapped(my_pk, other_pk) ==
    LET hash == create_hash(<<1,
                             bytes_compressed_to_big_int(my_pk),
                             bytes_compressed_to_big_int(my_pk),
                             bytes_compressed_to_big_int(other_pk)>>)
        a1 == scalar_mul(my_pk, ECScalar_from(hash))
        hash2 == create_hash(<<1,
                              bytes_compressed_to_big_int(other_pk),
                              bytes_compressed_to_big_int(other_pk),
                              bytes_compressed_to_big_int(my_pk)>>)
        a2 == scalar_mul(other_pk, ECScalar_from(hash2))
    IN  [apk |-> add_point(a2, a1), hash |-> hash]

\* KeyAgg::key_aggregation(my_pk, other_pk): the two-party routine.
key_aggregation(my_pk, other_pk) ==
    LET hash == create_hash(<<1,
                             bytes_compressed_to_big_int(my_pk),
                             bytes_compressed_to_big_int(my_pk),
                             bytes_compressed_to_big_int(other_pk)>>)
        hash_fe == ECScalar_from(hash)
        a1 == scalar_mul(my_pk, hash_fe)
        hash2 == create_hash(<<1,
                              bytes_compressed_to_big_int(other_pk),
                              bytes_compressed_to_big_int(my_pk),
                              bytes_compressed_to_big_int(other_pk)>>)
        hash2_fe == ECScalar_from(hash2)
        a2 == scalar_mul(other_pk, hash2_fe)
        apk == add_point(a2, a1)
    IN  [apk |-> apk, hash |-> hash]

RECURSIVE fold_add_point(_, _)
\* iter().fold(acc, |acc, pk| acc.add_point(pk))
fold_add_point(acc, points) ==
    IF points = <<>> THEN acc
    ELSE fold_add_point(add_point(acc, Head(points)), Tail(points))

\* key_aggregation_n panics on an empty list (apk_vec.remove(0)) and on an
\* index outside the list (hash_vec[party_index]).
key_aggregation_n_panics(pks, party_index) ==
    Len(pks) = 0 \/ party_index >= Len(pks)

\* The coefficients of key_aggregation_n: hash_vec.
key_aggregation_n_hash_vec(pks) ==
    LET x_coor_vec == [k \in 1..Len(pks) |-> bytes_compressed_to_big_int(pks[k])]
    IN  [k \in 1..Len(pks) |-> create_hash(<<1, x_coor_vec[k]>> \o x_coor_vec)]

\* key_aggregation_n returning the first key's coefficient whatever the index.
key_aggregation_n_first_hash(pks, party_index) ==
    LET hash_vec == key_aggregation_n_hash_vec(pks)
        apk_vec == [k \in 1..Len(pks) |->
                       scalar_mul(pks[k], ECScalar_from(hash_vec[k]))]
    IN  [apk |-> fold_add_point(Head(apk_vec), Tail(apk_vec)), hash |-> hash_vec[1]]

\* KeyAgg::key_aggregation_n(pks, party_index), party_index counted from 0.
key_aggregation_n(pks, party_index) ==
    LET hash_vec == key_aggregation_n_hash_vec(pks)
        apk_vec == [k \in 1..Len(pks) |->
                       scalar_mul(pks[k], ECScalar_from(hash_vec[k]))]
        pk1 == Head(apk_vec)
        sum == fold_add_point(pk1, Tail(apk_vec))
    IN  [apk |-> sum, hash |-> hash_vec[party_index + 1]]

\* ------------------------------------------------------------- EphemeralKey
RECURSIVE create_vec_loop_salted(_, _, _)
\* The loop of create_vec_from_private_key with the drawn blind hashed into the nonce.
create_vec_loop_salted(x1, i, rng) ==
    IF i >= NUM_OF_SHARES THEN <<>>
    ELSE LET hash_private_key_message ==
                 create_hash(<<to_big_int(x1.private_key), i, sample(rng)>>)
             ephemeral_private_key == ECScalar_from(hash_private_key_message)
             ephemeral_public_key == scalar_mul(generator, ephemeral_private_key)
             com == create_commitment(bytes_compressed_to_big_int(ephemeral_public_key), rng)
             eph_key == [keypair |-> [public_key |-> ephemeral_public_key,
                                      private_key |-> ephemeral_private_key],
                         commitment |-> com[1],
                         blind_factor |-> com[2]]
         IN  <<eph_key>> \o create_vec_loop_salted(x1, i + 1, next_rng(rng))

RECURSIVE create_vec_loop(_, _, _)
\* The loop of create_vec_from_private_key from slot i on; rng is the random source.
create_vec_loop(x1, i, rng) ==
    IF i >= NUM_OF_SHARES THEN <<>>
    ELSE LET hash_private_key_message == create_hash(<<to_big_int(x1.private_key), i>>)
             ephemeral_private_key == ECScalar_from(hash_private_key_message)
             ephemeral_public_key == scalar_mul(generator, ephemeral_private_key)
             com == create_commitment(bytes_compressed_to_big_int(ephemeral_public_key), rng)
             eph_key == [keypair |-> [public_key |-> ephemeral_public_key,
                                      private_key |-> ephemeral_private_key],
                         commitment |-> com[1],
                         blind_factor |-> com[2]]
         IN  <<eph_key>> \o create_vec_loop(x1, i + 1, next_rng(rng))

\* EphemeralKey::create_vec_from_private_key(x1)
create_vec_from_private_key(x1, rng) == create_vec_loop(x1, 0, rng)

RECURSIVE rng_after(_, _)
\* The random source after k draws.
rng_after(rng, k) == IF k = 0 THEN rng ELSE rng_after(next_rng(rng), k - 1)

\* EphemeralKey::test_com(r_to_test, blind_factor, comm)
test_com(r_to_test, blind_factor, comm) ==
    LET computed_comm == create_commitment_with_user_defined_randomness(
                             bytes_compressed_to_big_int(r_to_test), blind_factor)
    IN  computed_comm = comm

\* ------------------------------------------------------------- State
\* State::hash_0(r_hat, apk, message, musig_bit); None when r_hat.x_coor().unwrap() panics.
hash_0(r_hat, apk, message, musig_bit) ==
    IF ~is_some(x_coor(r_hat)) THEN None
    ELSE IF musig_bit
         THEN Some(create_hash(<<0,
                                 unwrap(x_coor(r_hat)),
                                 bytes_compressed_to_big_int(apk),
                                 BigInt_from_bytes(message)>>))
         ELSE Some(create_hash(<<unwrap(x_coor(r_hat)),
                                 bytes_compressed_to_big_int(apk),
                                 BigInt_from_bytes(message)>>))

RECURSIVE lin_comb_fold(_, _, _)
\* zip(b_coefficients).fold(acc, |acc, (ephk, b)| acc + ephk.keypair.private_key * FE::from(b))
lin_comb_fold(acc, ephk_vec, b_coefficients) ==
    IF ephk_vec = <<>> \/ b_coefficients = <<>> THEN acc
    ELSE lin_comb_fold(
             fe_add(acc, fe_mul(Head(ephk_vec).keypair.private_key,
                                ECScalar_from(Head(b_coefficients)))),
             Tail(ephk_vec), Tail(b_coefficients))

\* sign_0 leaving the aggregation coefficient out of the partial signature.
sign_0_without_coefficient(self, b_coefficients, c, x, a) ==
    LET c_fe == ECScalar_from(c)
        lin_comb_ephemeral_i == lin_comb_fold(zero, self.State0.ephk_vec, b_coefficients)
        s_fe == fe_add(lin_comb_ephemeral_i, fe_mul(c_fe, x.private_key))
    IN  <<s_fe, lin_comb_ephemeral_i>>

\* sign_0 adding the ephemeral private scalars without their blend coefficients.
sign_0_unblended(self, b_coefficients, c, x, a) ==
    LET c_fe == ECScalar_from(c)
        a_fe == ECScalar_from(a)
        lin_comb_ephemeral_i ==
            lin_comb_fold(zero, self.State0.ephk_vec, [j \in 1..Len(b_coefficients) |-> 1])
        s_fe == fe_add(lin_comb_ephemeral_i, fe_mul(fe_mul(c_fe, x.private_key), a_fe))
    IN  <<s_fe, lin_comb_ephemeral_i>>

\* State::sign_0(self, b_coefficients, c, x, a): (s_fe, lin_comb_ephemeral_i)
sign_0(self, b_coefficients, c, x, a) ==
    LET c_fe == ECScalar_from(c)
        a_fe == ECScalar_from(a)
        lin_comb_ephemeral_i == lin_comb_fold(zero, self.State0.ephk_vec, b_coefficients)
        s_fe == fe_add(lin_comb_ephemeral_i, fe_mul(fe_mul(c_fe, x.private_key), a_fe))
    IN  <<s_fe, lin_comb_ephemeral_i>>

\* add_ephemeral_keys panics when a peer's vector has no j-th point (ephk.get(j).unwrap()).
add_ephemeral_keys_panics(msg_vec) ==
    \E k \in 1..Len(msg_vec) : Len(msg_vec[k]) < NUM_OF_SHARES

RECURSIVE fold_slot(_, _, _)
\* msg_vec.iter().fold(acc, |acc, ephk| acc.add_point(ephk.get(j).unwrap())), j counted from 0.
fold_slot(acc, msg_vec, j) ==
    IF msg_vec = <<>> THEN acc
    ELSE fold_slot(add_point(acc, Head(msg_vec)[j + 1]), Tail(msg_vec), j)

\* add_ephemeral_keys leaving the party's own nonce points out of the sums.
add_ephemeral_keys_without_own(self, msg_vec, party_index) ==
    [jj \in 1..NUM_OF_SHARES |-> fold_slot(0, msg_vec, jj - 1)]

\* State::add_ephemeral_keys(self, msg_vec, party_index): R_j_vec
add_ephemeral_keys(self, msg_vec, party_index) ==
    [jj \in 1..NUM_OF_SHARES |->
        LET pk_0j == self.State0.ephk_vec[jj].keypair.public_key
        IN  fold_slot(pk_0j, msg_vec, jj - 1)]

\* State::sign_1(x): the session of a key pair; rng is the random source.
sign_1(x, rng) ==
    LET ephk_vec == create_vec_from_private_key(x, rng)
        msg == [k \in 1..Len(ephk_vec) |-> ephk_vec[k].keypair.public_key]
    IN  [State0 |-> [keypair |-> x, ephk_vec |-> ephk_vec],
         State1 |-> None,
         msg |-> [first_msg |-> msg, second_msg |-> None]]

\* State::get_msg_1(self)
get_msg_1(self) == self.msg.first_msg

\* State::get_state_1(self): None when self.State1.unwrap() panics.
get_state_1(self) == self.State1

\* The blend coefficients of sign_2 with b_j a digest of the slot sum R_j alone.
sign_2_b_coefficients_own_slot(apk, R_j_vec, message) ==
    [jj \in 1..NUM_OF_SHARES |->
        IF jj = 1 THEN 1
        ELSE create_hash(<<bytes_compressed_to_big_int(apk),
                           bytes_compressed_to_big_int(R_j_vec[jj]),
                           BigInt_from_bytes(message), jj - 1>>)]

\* The blend coefficients of sign_2: b_0 = 1, b_j a digest for 1 <= j < NUM_OF_SHARES.
sign_2_b_coefficients(apk, R_j_vec, message) ==
    [jj \in 1..NUM_OF_SHARES |->
        IF jj = 1 THEN 1
        ELSE LET hnon_preimage ==
                     <<bytes_compressed_to_big_int(apk)>>
                     \o [i \in 1..NUM_OF_SHARES |-> bytes_compressed_to_big_int(R_j_vec[i])]
                     \o <<BigInt_from_bytes(message), jj - 1>>
             IN  create_hash(hnon_preimage)]

RECURSIVE fold_blend(_, _, _)
\* zip(b).map(|(R_j, b_j)| R_j * FE::from(b_j)).fold(acc, |acc, R_j| acc.add_point(R_j))
fold_blend(acc, R_j_vec, b_coefficients) ==
    IF R_j_vec = <<>> \/ b_coefficients = <<>> THEN acc
    ELSE fold_blend(
             add_point(acc, scalar_mul(Head(R_j_vec), ECScalar_from(Head(b_coefficients)))),
             Tail(R_j_vec), Tail(b_coefficients))

\* The combined nonce of sign_2.
sign_2_R(R_j_vec, b_coefficients) ==
    LET R_j0 == Head(R_j_vec)
        b_0 == Head(b_coefficients)
        R_0 == scalar_mul(R_j0, ECScalar_from(b_0))
    IN  fold_blend(R_0, Tail(R_j_vec), Tail(b_coefficients))

\* println!("{:?}", Option<State1>): the derived Debug rendering names every field
\* of State1 with its value.
fmt_debug_State1(state1) ==
    IF ~is_some(state1) THEN <<>>
    ELSE <<<<"R", unwrap(state1).R>>,
           <<"s_i", unwrap(state1).s_i>>,
           <<"c", unwrap(state1).c>>,
           <<"r_i", unwrap(state1).r_i>>,
           <<"b_coefficients", unwrap(state1).b_coefficients>>>>

\* State::sign_2(self, message, pks, msg_vec, party_index): the session after the
\* call, what it returned and printed (stdout: the lines, each the field/value
\* pairs it shows), or the panic it ended in.
sign_2(self, message, pks, msg_vec, party_index) ==
    IF key_aggregation_n_panics(pks, party_index) \/ add_ephemeral_keys_panics(msg_vec)
    THEN [panic |-> TRUE, self |-> self, ret |-> None, R_j_vec |-> None, stdout |-> <<>>]
    ELSE LET key_agg == key_aggregation_n(pks, party_index)
             R_j_vec == add_ephemeral_keys(self, msg_vec, party_index)
             b_coefficients == sign_2_b_coefficients(key_agg.apk, R_j_vec, message)
             R == sign_2_R(R_j_vec, b_coefficients)
             c == hash_0(R, key_agg.apk, message, TRUE)
         IN  IF ~is_some(c)
             THEN [panic |-> TRUE, self |-> self, ret |-> None, R_j_vec |-> Some(R_j_vec),
                   stdout |-> <<<<<<"R_j_vec", R_j_vec>>>>>>]
             ELSE LET sr == sign_0(self, b_coefficients, unwrap(c),
                                   self.State0.keypair, key_agg.hash)
                      s_i == sr[1]
                      r_i == sr[2]
                      left_arg == scalar_mul(generator, s_i)
                      pub_key == self.State0.keypair.public_key
                      a_i == ECScalar_from(key_agg.hash)
                      c_fe == ECScalar_from(unwrap(c))
                      right_arg == add_point(scalar_mul(scalar_mul(pub_key, a_i), c_fe),
                                             scalar_mul(generator, r_i))
                      State1 == Some([R |-> R, s_i |-> s_i, c |-> unwrap(c), r_i |-> r_i,
                                      b_coefficients |-> b_coefficients])
                  IN  [panic |-> FALSE,
                       self |-> [self EXCEPT !.State1 = State1],
                       ret |-> Some(<<left_arg, right_arg>>),
                       R_j_vec |-> Some(R_j_vec),
                       stdout |-> <<<<<<"R_j_vec", R_j_vec>>>>,
                                    <<<<"left_arg", left_arg>>>>,
                                    <<<<"right_arg", right_arg>>>>,
                                    fmt_debug_State1(State1)>>]

RECURSIVE fold_fe_add(_, _)
\* msg_vec.iter().fold(acc, |acc, s_i| acc + s_i)
fold_fe_add(acc, msg_vec) ==
    IF msg_vec = <<>> THEN acc
    ELSE fold_fe_add(fe_add(acc, Head(msg_vec)), Tail(msg_vec))

\* sign_3 leaving the party's own partial signature out of the sum.
sign_3_without_own(self, msg_vec) ==
    IF ~is_some(self.State1) THEN None
    ELSE Some(fold_fe_add(zero, msg_vec))

\* sign_3 taking zero for the own partial signature of a session without State1.
sign_3_without_unwrap(self, msg_vec) ==
    LET s_0 == IF is_some(self.State1) THEN unwrap(self.State1).s_i ELSE zero
    IN  Some(fold_fe_add(s_0, msg_vec))

\* State::sign_3(self, msg_vec): None when self.State1.unwrap() panics.
sign_3(self, msg_vec) ==
    IF ~is_some(self.State1) THEN None
    ELSE LET s_0 == unwrap(self.State1).s_i
         IN  Some(fold_fe_add(s_0, msg_vec))

\* add_signature_parts returning the sum of the integers as it is.
add_signature_parts_unreduced(s1, s2, r_tag) ==
    IF ~is_some(x_coor(r_tag)) THEN None
    ELSE IF s2 = 0
         THEN Some(<<unwrap(x_coor(r_tag)), s1>>)
         ELSE Some(<<unwrap(x_coor(r_tag)), s1 + s2>>)

\* State::add_signature_parts(s1, s2, r_tag): None when r_tag.x_coor().unwrap() panics.
add_signature_parts(s1, s2, r_tag) ==
    IF ~is_some(x_coor(r_tag)) THEN None
    ELSE IF s2 = 0
         THEN Some(<<unwrap(x_coor(r_tag)), s1>>)
         ELSE LET s1_fe == ECScalar_from(s1)
                  s2_fe == ECScalar_from(s2)
                  s1_plus_s2 == fe_add(s1_fe, s2_fe)
              IN  Some(<<unwrap(x_coor(r_tag)), to_big_int(s1_plus_s2)>>)

\* ------------------------------------------------------------- verification
\* verify_partial leaving the aggregation coefficient out of c*a*X.
verify_partial_without_a(signature, r_x, c, a, key_pub) ==
    LET sG == scalar_mul(generator, signature)
        cY == scalar_mul(key_pub, c)
        sG2 == sub_point(sG, cY)
    IN  IF ~is_some(x_coor(sG2)) THEN "panic"
        ELSE IF to_hex(unwrap(x_coor(sG2))) = to_hex(r_x) THEN "Ok" ELSE "Err"

\* verify_partial(signature, r_x, c, a, key_pub): "Ok", "Err", or "panic" (x_coor().unwrap()).
verify_partial(signature, r_x, c, a, key_pub) ==
    LET g == generator
        sG == scalar_mul(g, signature)
        cY == scalar_mul(scalar_mul(key_pub, a), c)
        sG2 == sub_point(sG, cY)
    IN  IF ~is_some(x_coor(sG2)) THEN "panic"
        ELSE IF to_hex(unwrap(x_coor(sG2))) = to_hex(r_x) THEN "Ok" ELSE "Err"

\* verify(signature, r_x, apk, c): "Ok", "Err", or "panic" (x_coor().unwrap()).
verify(signature, r_x, apk, c) ==
    LET base_point == generator
        sG == scalar_mul(base_point, signature)
        c_fe == ECScalar_from(c)
        cY == scalar_mul(apk, c_fe)
        sG2 == sub_point(sG, cY)
    IN  IF ~is_some(x_coor(sG2)) THEN "panic"
        ELSE IF to_hex(unwrap(x_coor(sG2))) = to_hex(r_x) THEN "Ok" ELSE "Err"

\* ------------------------------------------------------------- key aggregation calls
VARIABLES
    agg_pks,  \* the ordered key list handed to the aggregation routines
    agg_n,    \* agg_n[idx]: Option of the outcome of key_aggregation_n(agg_pks, idx)
    agg_2     \* Option of what key_aggregation(agg_pks[0], agg_pks[1]) returned

aggvars == <<agg_pks, agg_n, agg_2>>

\* ------------------------------------------------------------- the signing sessions
VARIABLES
    n,        \* the number of parties
    keys,     \* keys[i]: party i's long-term KeyPair (round 0)
    message,  \* the message the parties agreed to sign
    rng,      \* the random source
    session,  \* session[i]: Option<State>, party i's session object
    wire,     \* wire[i]: Option<Vec<GE>>, party i's first message as its peers receive it
    pc,       \* pc[i]: "Start", "Committed" (after sign_1), "Signed" (State1 set), "Panicked"
    call2,    \* call2[i]: the arguments of party i's last completed sign_2 call
    out2,     \* out2[i]: what that call printed (R_j_vec, stdout) and returned (ret)
    call3,    \* call3[i]: the peers whose partial signatures party i's last sign_3 call took
    s_total   \* s_total[i]: Option<FE>, what that call returned

sessionvars == <<n, keys, message, rng, session, wire, pc, call2, out2, call3, s_total>>

\* ------------------------------------------------------------- verification calls
VARIABLES
    ver_in,   \* Option of the arguments handed to verify and verify_partial
    ver_out,  \* Option of the outcome of verify(signature, r_x, point, c)
    verp_out  \* Option of the outcome of verify_partial(signature, r_x, c, a, point)

verifyvars == <<ver_in, ver_out, verp_out>>

\* ------------------------------------------------------------- add_signature_parts calls
VARIABLES
    asp_in,   \* Option of the arguments handed to add_signature_parts
    asp_out   \* Option of what add_signature_parts returned (None inside: it panicked)

partsvars == <<asp_in, asp_out>>

\* ------------------------------------------------------------- successive sessions
VARIABLES
    signer,   \* Option<KeyPair>: the long-term key of a party that signs again and again
    peer,     \* Option<KeyPair>: the long-term key of its one peer
    run_rng,  \* the random source of the two
    runs      \* runs[k]: the k-th session of the signer (self), the peer's session of
              \* that run (peer_self), the message it signed (Option) and whether its
              \* sign_2 call panicked

repeatvars == <<signer, peer, run_rng, runs>>

callvars == <<verifyvars, partsvars, repeatvars>>
vars == <<sessionvars, aggvars, callvars>>

\* No verification call is made.
VerifyIdle == ver_in = None /\ ver_out = None /\ verp_out = None

\* No call is made outside the signing sessions and the key aggregation.
\* No add_signature_parts call is made.
PartsIdle == asp_in = None /\ asp_out = None

\* No party runs successive sessions.
RepeatIdle == signer = None /\ peer = None /\ run_rng = 0 /\ runs = <<>>

CallsIdle == VerifyIdle /\ PartsIdle /\ RepeatIdle

\* No aggregation call is made.
AggIdle == agg_pks = <<>> /\ agg_n = <<>> /\ agg_2 = None

Parties == 1..n
Others(i) == Parties \ {i}
Slots == 0..(NUM_OF_SHARES - 1)

\* The ordered key list the parties agreed on.
pks == [i \in 1..n |-> keys[i].public_key]

RECURSIVE SeqOver(_, _, _)
\* The sequence of f[k] for the k of 1..hi that are in S, in ascending order.
SeqOver(f, S, hi) ==
    IF hi = 0 THEN <<>>
    ELSE IF hi \in S THEN Append(SeqOver(f, S, hi - 1), f[hi])
         ELSE SeqOver(f, S, hi - 1)

Alive(i) == pc[i] \in {"Committed", "Signed"}

InitWith(counts) ==
    /\ n \in counts
    /\ keys \in [1..n -> {create(k) : k \in 1..MaxKey}]
    /\ message \in Messages
    /\ rng \in 0..MaxSeed
    /\ session = [i \in 1..n |-> None]
    /\ wire = [i \in 1..n |-> None]
    /\ pc = [i \in 1..n |-> "Start"]
    /\ call2 = [i \in 1..n |-> None]
    /\ out2 = [i \in 1..n |-> None]
    /\ call3 = [i \in 1..n |-> None]
    /\ s_total = [i \in 1..n |-> None]
    /\ AggIdle
    /\ CallsIdle

\* Party i starts its session: State::sign_1(key).
Sign1(i) ==
    /\ pc[i] = "Start"
    /\ session' = [session EXCEPT ![i] = Some(sign_1(keys[i], rng))]
    /\ rng' = rng_after(rng, NUM_OF_SHARES)
    /\ pc' = [pc EXCEPT ![i] = "Committed"]
    /\ UNCHANGED <<n, keys, message, wire, call2, out2, call3, s_total, aggvars, callvars>>

\* Party i publishes its first message: State::get_msg_1().
GetMsg1(i) ==
    /\ Alive(i)
    /\ wire[i] = None
    /\ wire' = [wire EXCEPT ![i] = Some(get_msg_1(unwrap(session[i])))]
    /\ UNCHANGED <<n, keys, message, rng, session, pc, call2, out2, call3, s_total, aggvars, callvars>>

\* No first message has been altered on its way.
Untampered ==
    \A k \in Parties : is_some(wire[k]) => unwrap(wire[k]) = get_msg_1(unwrap(session[k]))

\* A peer's revealed point of slot j is changed on its way (at most one alteration a run).
Tamper(k, j) ==
    /\ is_some(wire[k])
    /\ Untampered
    /\ wire' = [wire EXCEPT ![k] =
                   Some([unwrap(wire[k]) EXCEPT ![j + 1] = add_point(@, generator)])]
    /\ UNCHANGED <<n, keys, message, rng, session, pc, call2, out2, call3, s_total, aggvars, callvars>>

\* A peer's nonce vector loses its last point on its way.
Truncate(k) ==
    /\ is_some(wire[k])
    /\ Untampered
    /\ wire' = [wire EXCEPT ![k] =
                   Some(SubSeq(unwrap(wire[k]), 1, NUM_OF_SHARES - 1))]
    /\ UNCHANGED <<n, keys, message, rng, session, pc, call2, out2, call3, s_total, aggvars, callvars>>

\* Party i calls sign_2 on message m with the first messages it received.
Sign2(i, m) ==
    /\ Alive(i)
    /\ \A k \in Others(i) : is_some(wire[k])
    /\ \E r \in {sign_2(unwrap(session[i]), m, pks,
                          SeqOver([k \in Parties |-> unwrap(wire[k])], Others(i), n),
                          i - 1)} :
           IF r.panic
           THEN /\ pc' = [pc EXCEPT ![i] = "Panicked"]
                /\ UNCHANGED <<session, call2, out2>>
           ELSE /\ session' = [session EXCEPT ![i] = Some(r.self)]
                /\ pc' = [pc EXCEPT ![i] = "Signed"]
                /\ call2' = [call2 EXCEPT ![i] =
                                Some([message |-> m,
                                      msg_vec |-> SeqOver([k \in Parties |-> unwrap(wire[k])],
                                                          Others(i), n)])]
                /\ out2' = [out2 EXCEPT ![i] =
                               Some([R_j_vec |-> unwrap(r.R_j_vec), ret |-> unwrap(r.ret),
                                     stdout |-> r.stdout])]
    /\ UNCHANGED <<n, keys, message, rng, wire, call3, s_total, aggvars, callvars>>

\* The peers of i that hold a partial signature.
SignedOthers(i) == {k \in Others(i) : pc[k] = "Signed"}

\* The partial signatures of the peers in S, in the order of the parties.
PartialSigs(S) ==
    SeqOver([k \in Parties |-> IF k \in S THEN unwrap(unwrap(session[k]).State1).s_i
                                          ELSE zero],
            S, n)

\* Party i calls sign_3 with the partial signatures of the peers in S.
Sign3(i, S) ==
    /\ Alive(i)
    /\ S \subseteq SignedOthers(i)
    /\ \E r \in {sign_3(unwrap(session[i]), PartialSigs(S))} :
           IF ~is_some(r)
           THEN /\ pc' = [pc EXCEPT ![i] = "Panicked"]
                /\ UNCHANGED <<call3, s_total>>
           ELSE /\ call3' = [call3 EXCEPT ![i] = Some(S)]
                /\ s_total' = [s_total EXCEPT ![i] = r]
                /\ UNCHANGED pc
    /\ UNCHANGED <<n, keys, message, rng, session, wire, call2, out2, aggvars, callvars>>

\* No signing session is run.
SessionsIdle ==
    /\ n = 0
    /\ keys = <<>>
    /\ message = <<>>
    /\ rng = 0
    /\ session = <<>>
    /\ wire = <<>>
    /\ pc = <<>>
    /\ call2 = <<>>
    /\ out2 = <<>>
    /\ call3 = <<>>
    /\ s_total = <<>>

\* ------------------------------------------------------------- key aggregation
\* The public keys of the key pairs.
PublicKeys == {create(k).public_key : k \in 1..MaxKey}

InitAgg ==
    /\ agg_pks \in UNION {[1..len -> PublicKeys] : len \in 0..MaxLen}
    /\ agg_n = [idx \in 0..MaxLen |-> None]
    /\ agg_2 = None
    /\ SessionsIdle
    /\ CallsIdle

\* A caller aggregates the key list for party_index.
KeyAggregationN(party_index) ==
    /\ agg_n[party_index] = None
    /\ agg_n' = [agg_n EXCEPT ![party_index] =
                    Some(IF key_aggregation_n_panics(agg_pks, party_index)
                         THEN [panic |-> TRUE, key_agg |-> None]
                         ELSE [panic |-> FALSE,
                               key_agg |-> Some(key_aggregation_n(agg_pks, party_index))])]
    /\ UNCHANGED <<agg_pks, agg_2, sessionvars, callvars>>

\* A caller aggregates a two-key list with the two-party routine.
KeyAggregation2 ==
    /\ Len(agg_pks) = 2
    /\ agg_2 = None
    /\ agg_2' = Some(key_aggregation(agg_pks[1], agg_pks[2]))
    /\ UNCHANGED <<agg_pks, agg_n, sessionvars, callvars>>

NextAgg ==
    \/ \E party_index \in 0..MaxLen : KeyAggregationN(party_index)
    \/ KeyAggregation2


SpecAgg == InitAgg /\ [][NextAgg]_vars

\* ------------------------------------------------------------- verification
\* The values a caller may hand to the verification routines as r_x: the
\* x-coordinates of the curve's points and a value that is none.
XCoordinates == {CurveX[k] : k \in 1..Len(CurveX)} \cup {0}
\* The integers handed as the challenge c: the scalars and the group order itself.
Challenges == 0..GroupOrder
\* The points of the curve that have coordinates.
Points == GE \ {0}

InitVerify ==
    /\ ver_in \in {Some(args) : args \in [signature : FE, r_x : XCoordinates,
                                       c : Challenges, a : FE, point : Points]}
    /\ ver_out = None
    /\ verp_out = None
    /\ PartsIdle
    /\ RepeatIdle
    /\ SessionsIdle
    /\ AggIdle

\* A caller verifies the signature against the point taken as the aggregated key.
Verify ==
    /\ ver_out = None
    /\ LET args == unwrap(ver_in)
       IN  ver_out' = Some(verify(args.signature, args.r_x, args.point, args.c))
    /\ UNCHANGED <<ver_in, verp_out, partsvars, repeatvars, sessionvars, aggvars>>

\* A caller verifies the signature as a partial signature of the point taken as a
\* party's key with coefficient a; the challenge is handed as a scalar.
VerifyPartial ==
    /\ verp_out = None
    /\ LET args == unwrap(ver_in)
       IN  verp_out' = Some(verify_partial(args.signature, args.r_x, ECScalar_from(args.c),
                                           args.a, args.point))
    /\ UNCHANGED <<ver_in, ver_out, partsvars, repeatvars, sessionvars, aggvars>>

NextVerify ==
    \/ Verify
    \/ VerifyPartial

SpecVerify == InitVerify /\ [][NextVerify]_vars

\* ------------------------------------------------------------- combining two parts
\* The integers a caller may hand as s1 and s2: the scalars and their
\* representatives one group order up.
BigInts == 0..(2 * GroupOrder - 1)

InitParts ==
    /\ asp_in \in {Some(args) : args \in [s1 : BigInts, s2 : BigInts, r_tag : Points]}
    /\ asp_out = None
    /\ VerifyIdle
    /\ RepeatIdle
    /\ SessionsIdle
    /\ AggIdle

\* A caller combines s1 and s2 under the nonce point r_tag.
AddSignatureParts ==
    /\ asp_out = None
    /\ LET args == unwrap(asp_in)
       IN  asp_out' = Some(add_signature_parts(args.s1, args.s2, args.r_tag))
    /\ UNCHANGED <<asp_in, verifyvars, repeatvars, sessionvars, aggvars>>

NextParts == AddSignatureParts

SpecParts == InitParts /\ [][NextParts]_vars

\* ------------------------------------------------------------- a party signing again
\* A party and its peer run one two-party session after the other, each started by
\* State::sign_1 on the same long-term keys; the signer is party 0 of the key list.
InitRuns ==
    /\ signer \in {Some(create(k)) : k \in 1..MaxKey}
    /\ peer \in {Some(create(k)) : k \in 1..MaxKey}
    /\ run_rng \in 0..MaxSeed
    /\ runs = <<>>
    /\ VerifyIdle
    /\ PartsIdle
    /\ SessionsIdle
    /\ AggIdle

\* The two start their next session: State::sign_1 on each long-term key.
NewSession ==
    /\ Len(runs) < MaxSessions
    /\ runs' = Append(runs,
                      [self |-> sign_1(unwrap(signer), run_rng),
                       peer_self |-> sign_1(unwrap(peer), rng_after(run_rng, NUM_OF_SHARES)),
                       message |-> None,
                       panic |-> FALSE])
    /\ run_rng' = rng_after(run_rng, 2 * NUM_OF_SHARES)
    /\ UNCHANGED <<signer, peer, verifyvars, partsvars, sessionvars, aggvars>>

\* The signer calls sign_2 in its k-th session on message m with the peer's first message.
SignRun(k, m) ==
    /\ k \in 1..Len(runs)
    /\ runs[k].message = None
    /\ \E r \in {sign_2(runs[k].self, m,
                          <<unwrap(signer).public_key, unwrap(peer).public_key>>,
                          <<get_msg_1(runs[k].peer_self)>>, 0)} :
           runs' = [runs EXCEPT ![k] = [self |-> r.self,
                                        peer_self |-> runs[k].peer_self,
                                        message |-> Some(m),
                                        panic |-> r.panic]]
    /\ UNCHANGED <<signer, peer, run_rng, verifyvars, partsvars, sessionvars, aggvars>>

NextRuns ==
    \/ NewSession
    \/ \E k \in 1..MaxSessions, m \in Messages : SignRun(k, m)

SpecRuns == InitRuns /\ [][NextRuns]_vars

\* ------------------------------------------------------------- honestly run sessions
\* Every party signs the agreed message with the first messages as published and
\* combines the partial signatures of all its peers.
Init == InitWith(PartyCounts)

Next ==
    \/ \E i \in Parties : Sign1(i)
    \/ \E i \in Parties : GetMsg1(i)
    \/ \E i \in Parties : Sign2(i, message)
    \/ \E i \in Parties : Others(i) = SignedOthers(i) /\ Sign3(i, Others(i))

Spec == Init /\ [][Next]_vars

\* ------------------------------------------------------------- unconstrained sessions
\* The callers may sign any message, any number of times, and combine the partial
\* signatures that exist; the network may alter one first message.
InitOpen == InitWith(OpenPartyCounts)

NextOpen ==
    \/ \E i \in Parties : Sign1(i)
    \/ \E i \in Parties : GetMsg1(i)
    \/ \E k \in Parties, j \in Slots : Tamper(k, j)
    \/ \E k \in Parties : Truncate(k)
    \/ \E i \in Parties, m \in Messages : Sign2(i, m)
    \/ \E i \in Parties : Sign3(i, SignedOthers(i))

SpecOpen == InitOpen /\ [][NextOpen]_vars

\* ------------------------------------------------------------- properties
\* Party i's State1.
St1(i) == unwrap(unwrap(session[i]).State1)
HasState1(i) == is_some(session[i]) /\ is_some(unwrap(session[i]).State1)

\* The first messages of i's peers as their sessions hold them, in the order of the parties.
FirstMsgs(i) == SeqOver([k \in Parties |-> get_msg_1(unwrap(session[k]))], Others(i), n)

\* Party i's last sign_2 call was on the agreed message with exactly its peers' nonce vectors.
HonestSign2(i) ==
    /\ is_some(call2[i])
    /\ unwrap(call2[i]).message = message
    /\ unwrap(call2[i]).msg_vec = FirstMsgs(i)

\* Party i's last sign_3 call took the partial signatures of all its peers.
HonestSign3(i) == is_some(s_total[i]) /\ call3[i] = Some(Others(i))

\* The parties hold at least two different long-term keys.
DistinctKeys == \E i, k \in Parties : keys[i] # keys[k]

\* C1: in an honestly run session of 2 or 3 parties (sign_1, sign_2 with exactly the
\* peers' nonce vectors, sign_3 with the peers' partial signatures), verify of the
\* total s against the x-coordinate of R, apk and c returns Ok, whichever party's
\* total, R, apk and c are taken.
C1_HonestSessionVerifies ==
    \A i \in Parties :
        (HonestSign3(i) /\ \A k \in Parties : HonestSign2(k)) =>
            \A k \in Parties :
                verify(unwrap(s_total[i]), unwrap(x_coor(St1(k).R)),
                       key_aggregation_n(pks, k - 1).apk, St1(k).c) = "Ok"

C1_Witness ==
    /\ n = 3
    /\ DistinctKeys
    /\ \A i \in Parties : HonestSign3(i) /\ HonestSign2(i)

\* C2: two honest parties that ran sign_2 on the same message, key list and each
\* other's published nonce vectors hold the same slot sums R_j, the same R and the same c.
C2_Agreement ==
    \A i, k \in Parties :
        (HonestSign2(i) /\ HonestSign2(k)) =>
            /\ unwrap(out2[i]).R_j_vec = unwrap(out2[k]).R_j_vec
            /\ St1(i).R = St1(k).R
            /\ St1(i).c = St1(k).c

C2_Witness ==
    /\ n = 3
    /\ DistinctKeys
    /\ \A i \in Parties : HonestSign2(i)
    /\ \E i, k \in Parties : St1(i).r_i # St1(k).r_i

RECURSIVE C3_Sum(_, _)
\* The sum of a_k * X_k over the first k keys of L, a_k = Digest(1, X_k, X_0, ..., X_{n-1}).
C3_Coefficient(L, k) ==
    create_hash(<<1, bytes_compressed_to_big_int(L[k])>>
                \o [j \in 1..Len(L) |-> bytes_compressed_to_big_int(L[j])])
C3_Sum(L, k) ==
    IF k = 0 THEN 0
    ELSE (C3_Sum(L, k - 1) + L[k] * (C3_Coefficient(L, k) % GroupOrder)) % GroupOrder

\* C3: for a non-empty key list and an index in range, key_aggregation_n returns
\* apk = sum of a_k * X_k with a_k = Digest(1, X_k, X_0, ..., X_{n-1}) and hash = a_i;
\* so every index gets the same apk.
C3_KeyAggregation ==
    \A idx \in 0..MaxLen :
        (is_some(agg_n[idx]) /\ Len(agg_pks) >= 1 /\ idx < Len(agg_pks)) =>
            /\ ~unwrap(agg_n[idx]).panic
            /\ unwrap(unwrap(agg_n[idx]).key_agg).apk = C3_Sum(agg_pks, Len(agg_pks))
            /\ unwrap(unwrap(agg_n[idx]).key_agg).hash = C3_Coefficient(agg_pks, idx + 1)

C3_Witness ==
    /\ Len(agg_pks) = 3
    /\ agg_pks[1] # agg_pks[3]
    /\ is_some(agg_n[0]) /\ is_some(agg_n[2])
    /\ unwrap(unwrap(agg_n[0]).key_agg).hash # unwrap(unwrap(agg_n[2]).key_agg).hash

\* C4: after sign_2, verify_partial of a party's s_i against the x-coordinate of its
\* own nonce point r_i * G, c, its coefficient a_i and its key X_i returns Ok,
\* whatever its peers sent.
C4_PartialVerifies ==
    \A i \in Parties :
        (HasState1(i) /\ is_some(x_coor(scalar_mul(generator, St1(i).r_i)))) =>
            verify_partial(St1(i).s_i,
                           unwrap(x_coor(scalar_mul(generator, St1(i).r_i))),
                           ECScalar_from(St1(i).c),
                           ECScalar_from(key_aggregation_n(pks, i - 1).hash),
                           keys[i].public_key) = "Ok"

C4_Witness ==
    \E i \in Parties :
        /\ HasState1(i)
        /\ is_some(x_coor(scalar_mul(generator, St1(i).r_i)))
        /\ ~Untampered
        /\ ~HonestSign2(i)

\* C5: as the test asserts, verify_partial of an honest party's s_i with the integer
\* value of its nonce scalar r_i as r_x, c, a_i and X_i returns Ok.
C5_TestAssertion ==
    \A i \in Parties :
        HonestSign2(i) =>
            verify_partial(ECScalar_from(to_big_int(St1(i).s_i)),
                           to_big_int(St1(i).r_i),
                           ECScalar_from(St1(i).c),
                           ECScalar_from(key_aggregation_n(pks, i - 1).hash),
                           unwrap(session[i]).State0.keypair.public_key) = "Ok"

RECURSIVE C6_Sum(_)
\* The sum of the partial signatures of the parties 1..k.
C6_Sum(k) == IF k = 0 THEN 0 ELSE (C6_Sum(k - 1) + St1(k).s_i) % GroupOrder

\* C6: once all honest parties completed sign_2, each party's sign_3 on its peers'
\* partial signatures returns the sum of all s_i, the same for every party.
C6_SameTotal ==
    \A i \in Parties :
        (HonestSign3(i) /\ \A k \in Parties : HonestSign2(k)) =>
            /\ unwrap(s_total[i]) = C6_Sum(n)
            /\ \A k \in Parties : HonestSign3(k) => s_total[k] = s_total[i]

C6_Witness ==
    /\ n = 3
    /\ \A i \in Parties : HonestSign3(i) /\ HonestSign2(i)
    /\ \E i, k \in Parties : St1(i).s_i # St1(k).s_i

\* C7: for two keys, key_aggregation(X_0, X_1) returns the apk and the coefficient
\* that key_aggregation_n([X_0, X_1], 0) returns.
C7_TwoPartyConsistent ==
    (is_some(agg_2) /\ is_some(agg_n[0])) =>
        /\ ~unwrap(agg_n[0]).panic
        /\ unwrap(agg_2) = unwrap(unwrap(agg_n[0]).key_agg)

C7_Witness ==
    /\ is_some(agg_2) /\ is_some(agg_n[0])
    /\ agg_pks[1] # agg_pks[2]

\* The commitments and the nonce points of party i's session.
Commitments(i) ==
    [j \in 1..NUM_OF_SHARES |-> unwrap(session[i]).State0.ephk_vec[j].commitment]
NoncePoints(i) ==
    [j \in 1..NUM_OF_SHARES |-> unwrap(session[i]).State0.ephk_vec[j].keypair.public_key]

\* C8: commit-then-reveal: the first message a session publishes carries its
\* commitments and not its nonce points, which are published only after the
\* commitments of all parties were exchanged.
C8_CommitThenReveal ==
    \A i \in Parties :
        is_some(wire[i]) =>
            /\ unwrap(wire[i]) = Commitments(i)
            /\ unwrap(wire[i]) # NoncePoints(i)

\* The peer whose nonce vector is the p-th of party i's msg_vec.
PeerAt(i, p) == IF p < i THEN p ELSE p + 1

\* C9: a revealed nonce point that does not open its sender's commitment makes
\* test_com return false and sign_2 abort: a completed sign_2 took only points
\* that open the commitments of their senders.
C9_TamperAborts ==
    \A i \in Parties :
        is_some(call2[i]) =>
            \A p \in 1..Len(unwrap(call2[i]).msg_vec), j \in 1..NUM_OF_SHARES :
                LET ephk == unwrap(session[PeerAt(i, p)]).State0.ephk_vec[j]
                IN  test_com(unwrap(call2[i]).msg_vec[p][j],
                             ephk.blind_factor, ephk.commitment)

\* C10: a session is single-use: once State1 is set, no later call replaces its
\* R, c or s_i.
C10_SingleUse ==
    [][\A i \in Parties :
          HasState1(i) => unwrap(session'[i]).State1 = unwrap(session[i]).State1]_vars

\* C11: key aggregation called with an empty key list, or with a party index outside
\* the list, returns an error result to its caller: it does not crash and it returns
\* no aggregation result.
C11_InvalidInput ==
    \A idx \in 0..MaxLen :
        (is_some(agg_n[idx]) /\ (Len(agg_pks) = 0 \/ idx >= Len(agg_pks))) =>
            /\ ~unwrap(agg_n[idx]).panic
            /\ ~is_some(unwrap(agg_n[idx]).key_agg)

\* The outcome the verification equation gives for the point p = s*G - c*Y: Ok when
\* p has an x-coordinate and it is r_x, the verification error in every other case.
C12_Expected(p, r_x) == IF x_coor(p) = Some(r_x) THEN "Ok" ELSE "Err"
\* s*G - c*Y as a point of the group, Y being y*G.
C12_Point(s, c, y) ==
    (s + GroupOrder * GroupOrder * GroupOrder - (c % GroupOrder) * y) % GroupOrder

\* C12: for all well-typed inputs verify returns Ok when s*G - c*apk has x-coordinate
\* r_x and the verification error otherwise, likewise verify_partial for
\* s_i*G - c*a_i*X_i; neither panics, also when the computed point is the identity.
C12_VerifyNeverPanics ==
    /\ is_some(ver_out) =>
           LET args == unwrap(ver_in)
           IN  unwrap(ver_out) =
                   C12_Expected(C12_Point(args.signature, args.c, args.point), args.r_x)
    /\ is_some(verp_out) =>
           LET args == unwrap(ver_in)
           IN  unwrap(verp_out) =
                   C12_Expected(C12_Point(args.signature, args.c * args.a, args.point),
                                args.r_x)

\* Apart from the panic on the identity, the outcomes are the ones of the equation.
C12_OutcomesButPanic ==
    /\ is_some(ver_out) =>
           LET args == unwrap(ver_in)
               p == C12_Point(args.signature, args.c, args.point)
           IN  unwrap(ver_out) = IF p = 0 THEN "panic" ELSE C12_Expected(p, args.r_x)
    /\ is_some(verp_out) =>
           LET args == unwrap(ver_in)
               p == C12_Point(args.signature, args.c * args.a, args.point)
           IN  unwrap(verp_out) = IF p = 0 THEN "panic" ELSE C12_Expected(p, args.r_x)

\* C13: for every sign_2 call the two returned points are equal, that is
\* s_i*G = X_i*a_i*c + G*r_i, and no State1 holds (and so no session emits) a partial
\* signature for which this equation does not hold, whatever the peers sent.
C13_SelfConsistent ==
    \A i \in Parties :
        /\ is_some(out2[i]) => unwrap(out2[i]).ret[1] = unwrap(out2[i]).ret[2]
        /\ HasState1(i) =>
               LET a_i == ECScalar_from(key_aggregation_n(pks, i - 1).hash)
                   X_i == keys[i].public_key
               IN  scalar_mul(generator, St1(i).s_i) =
                       add_point(scalar_mul(scalar_mul(X_i, a_i), ECScalar_from(St1(i).c)),
                                 scalar_mul(generator, St1(i).r_i))

C13_Witness ==
    \E i \in Parties :
        /\ HasState1(i)
        /\ is_some(out2[i])
        /\ ~Untampered
        /\ ~HonestSign2(i)
        /\ St1(i).s_i # St1(i).r_i
        /\ unwrap(out2[i]).ret[1] = scalar_mul(generator, St1(i).s_i)

\* The names under which a printed line would show a secret scalar: the long-term
\* private key, an ephemeral private scalar, the local combined nonce scalar.
C14_SecretFields == {"private_key", "r_i"}

\* C14: no operation writes a party's long-term private key or a nonce scalar to a
\* log or serialized output; in particular nothing sign_2 prints contains r_i.
C14_NoSecretPrinted ==
    \A i \in Parties :
        is_some(out2[i]) =>
            \A l \in 1..Len(unwrap(out2[i]).stdout) :
                \A f \in 1..Len(unwrap(out2[i]).stdout[l]) :
                    ~ /\ unwrap(out2[i]).stdout[l][f][1] \in C14_SecretFields
                      /\ unwrap(out2[i]).stdout[l][f][2] = St1(i).r_i

C16_AddSignatureParts ==
    is_some(asp_out) =>
        LET args == unwrap(asp_in)
            res == unwrap(unwrap(asp_out))
        IN  /\ is_some(unwrap(asp_out))
            /\ res[1] = CurveX[args.r_tag]
            /\ args.s2 = 0 => res[2] = args.s1
            /\ args.s2 # 0 => res[2] = (args.s1 + args.s2) % GroupOrder
            /\ args.s2 = 0 =>
                   /\ res = <<CurveX[args.r_tag], args.s1>>
                   /\ \A x \in FE, c \in FE :
                          (args.s1 % GroupOrder = (args.r_tag + c * x) % GroupOrder) =>
                              verify(ECScalar_from(res[2]), res[1],
                                     create(x).public_key, c) = "Ok"

\* The single-party case on an integer above the group order that is the plain
\* Schnorr s of a key and a challenge other than zero.
C16_Witness ==
    /\ is_some(asp_out)
    /\ unwrap(asp_in).s2 = 0
    /\ unwrap(asp_in).s1 >= GroupOrder
    /\ unwrap(unwrap(asp_out)) = <<CurveX[unwrap(asp_in).r_tag], unwrap(asp_in).s1>>
    /\ \E x \in FE \ {0}, c \in FE \ {0} :
           unwrap(asp_in).s1 % GroupOrder = (unwrap(asp_in).r_tag + c * x) % GroupOrder

\* The two-party case on a sum that is reduced.
C16_WitnessSum ==
    /\ is_some(asp_out)
    /\ unwrap(asp_in).s2 # 0
    /\ unwrap(asp_in).s1 + unwrap(asp_in).s2 >= GroupOrder
    /\ unwrap(unwrap(asp_out))[2] # unwrap(asp_in).s1

RECURSIVE C17_PeerSum(_, _, _)
\* The sum of the j-th points of the first p nonce vectors of msg_vec.
C17_PeerSum(msg_vec, j, p) ==
    IF p = 0 THEN 0 ELSE (C17_PeerSum(msg_vec, j, p - 1) + msg_vec[p][j]) % GroupOrder
\* R_j of party i's last sign_2 call: the sum of the j-th nonce points of all parties.
C17_SlotSums(i) ==
    [j \in 1..NUM_OF_SHARES |->
        (NoncePoints(i)[j]
         + C17_PeerSum(unwrap(call2[i]).msg_vec, j, Len(unwrap(call2[i]).msg_vec)))
        % GroupOrder]
\* Digest(apk, R_0, ..., R_{k-1}, message, j)
C17_Digest(apk, R_vec, m, j) ==
    create_hash(<<bytes_compressed_to_big_int(apk)>>
                \o [k \in 1..NUM_OF_SHARES |-> bytes_compressed_to_big_int(R_vec[k])]
                \o <<BigInt_from_bytes(m), j>>)
RECURSIVE C17_Blend(_, _, _)
\* The sum of b_j * R_j over the first k slots.
C17_Blend(R_vec, b, k) ==
    IF k = 0 THEN 0
    ELSE (C17_Blend(R_vec, b, k - 1) + (b[k] % GroupOrder) * R_vec[k]) % GroupOrder

\* C17: in sign_2, with R_j the per-slot sum of all parties' j-th nonce points, b_0 = 1
\* and b_j = Digest(apk, R_0, ..., R_{k-1}, message, j) for 1 <= j < NUM_OF_SHARES; the
\* stored R is the sum of b_j * R_j and the stored b_coefficients has NUM_OF_SHARES entries.
C17_BlendCoefficients ==
    \A i \in Parties :
        is_some(call2[i]) =>
            LET R_vec == C17_SlotSums(i)
                b == St1(i).b_coefficients
                apk == C3_Sum(pks, n)
            IN  /\ unwrap(out2[i]).R_j_vec = R_vec
                /\ Len(b) = NUM_OF_SHARES
                /\ b[1] = 1
                /\ \A j \in 1..(NUM_OF_SHARES - 1) :
                       b[j + 1] = C17_Digest(apk, R_vec, unwrap(call2[i]).message, j)
                /\ St1(i).R = C17_Blend(R_vec, b, NUM_OF_SHARES)

C17_Witness ==
    \E i \in Parties :
        /\ is_some(call2[i])
        /\ DistinctKeys
        /\ St1(i).b_coefficients[2] % GroupOrder \notin {0, 1}
        /\ unwrap(out2[i]).R_j_vec[1] # 0
        /\ unwrap(out2[i]).R_j_vec[2] # 0
        /\ St1(i).R # unwrap(out2[i]).R_j_vec[1]

\* The ephemeral keys, the nonce scalars and the nonce points of the signer's k-th session.
RunKeys(k) == runs[k].self.State0.ephk_vec
RunScalars(k) == [j \in 1..Len(RunKeys(k)) |-> RunKeys(k)[j].keypair.private_key]
RunPoints(k) == [j \in 1..Len(RunKeys(k)) |-> RunKeys(k)[j].keypair.public_key]
RunBlinds(k) == [j \in 1..Len(RunKeys(k)) |-> RunKeys(k)[j].blind_factor]

RunSigned(k) == is_some(runs[k].self.State1)
RunLocalNonce(k) == unwrap(runs[k].self.State1).r_i

\* C19: an ephemeral nonce is one-time: across the sessions a party runs, also on
\* different messages, no two sessions hold the same ephemeral private nonce scalars
\* and no two sessions use the same local combined nonce.
C19_NonceOneTime ==
    \A k, l \in 1..Len(runs) :
        k # l =>
            /\ RunScalars(k) # RunScalars(l)
            /\ (RunSigned(k) /\ RunSigned(l)) => RunLocalNonce(k) # RunLocalNonce(l)

\* The case of C19 with the most at stake: two sessions of a party that signed
\* different messages do not hold the same ephemeral nonce scalars.
C19_ReusedAcrossMessages ==
    \A k, l \in 1..Len(runs) :
        (RunSigned(k) /\ RunSigned(l) /\ runs[k].message # runs[l].message) =>
            RunScalars(k) # RunScalars(l)

\* The nonce vectors party i would hand to sign_2 now, and whether one of them is short.
ReceivedMsgs(i) == SeqOver([k \in Parties |-> unwrap(wire[k])], Others(i), n)
ShortVector(i) ==
    /\ Alive(i)
    /\ \A k \in Others(i) : is_some(wire[k])
    /\ \E k \in Others(i) : Len(unwrap(wire[k])) < NUM_OF_SHARES

\* C20: when a peer's nonce vector handed to add_ephemeral_keys / sign_2 has fewer
\* than NUM_OF_SHARES points, the call reports an error result to its caller: it does
\* not crash and it does not set State1.
C20_ShortVectorRejected ==
    \A i \in Parties, m \in Messages :
        ShortVector(i) =>
            LET r == sign_2(unwrap(session[i]), m, pks, ReceivedMsgs(i), i - 1)
            IN  /\ ~r.panic
                /\ r.self.State1 = unwrap(session[i]).State1

RECURSIVE C21_Sum(_)
\* The sum of the local combined nonce scalars r_i of the parties 1..k.
C21_Sum(k) == IF k = 0 THEN 0 ELSE (C21_Sum(k - 1) + St1(k).r_i) % GroupOrder

\* C21: in an honest session, after all parties completed sign_2, the agreed combined
\* nonce is the generator times the sum of the parties' local combined nonce scalars:
\* R = (sum over i of State1.r_i) * G, for every party's R.
C21_CombinedNonce ==
    (\A k \in Parties : HonestSign2(k)) =>
        \A i \in Parties : St1(i).R = scalar_mul(generator, C21_Sum(n))

C21_Witness ==
    /\ n = 3
    /\ DistinctKeys
    /\ \A k \in Parties : HonestSign2(k)
    /\ \E i, k \in Parties : St1(i).r_i # St1(k).r_i
    /\ \A i \in Parties : St1(i).r_i # 0 /\ St1(i).R # scalar_mul(generator, St1(i).r_i)
    /\ \E i \in Parties : St1(i).b_coefficients[2] % GroupOrder \notin {0, 1}

====
